---- MODULE Spec2Model ----
(***************************************************************************)
(* Model of the Reddit comment extractor: the comment-tree normaliser      *)
(* (parseComments, route.ts), the recursive sort and the export flattening *)
(* (sortComments, flattenComments, page component) and the page's state.   *)
(*                                                                         *)
(* JavaScript values are represented as follows.                           *)
(*   - an array is a sequence;                                             *)
(*   - an optional field (replies?) is None (absent/undefined) or Some(v); *)
(*     a field that is truthy exactly when present is tested with IsSome;  *)
(*   - a string that the code inspects character by character (body) is a  *)
(*     sequence of one-character strings; ids are natural-number tokens    *)
(*     and authors are tokens <<"u", n>>: the code only copies them.       *)
(***************************************************************************)
EXTENDS Integers, Sequences, FiniteSets

\* ---------------------------------------------------------------- bounds

\* Largest number of nodes (over all depths) of a comment forest given to
\* sortComments or flattenComments.
MaxNodes == 3

\* Largest number of raw nodes (over all depths) of a payload given to
\* parseComments.
MaxRawNodes == 3

\* The GET requests that get past the rate limit in a behaviour of the API
\* route, and the pairs of client address and window they belong to.
MaxRequests == 12
MaxSlots == 2

\* How often the clock of the API route advances, by half a window each time.
MaxTicks == 5

\* ------------------------------------------------------- optional values

None == <<>>
Some(v) == <<v>>
IsSome(o) == Len(o) = 1
Get(o) == o[1]

\* ----------------------------------------------------------------- bodies

\* The placeholder body of a removed comment, '[deleted]'.
Deleted == <<"[", "d", "e", "l", "e", "t", "e", "d", "]">>

BodyHi == <<"h", "i">>
BodyTwoLines == <<"a", "\n", "b", "\n">>

\* ------------------------------------------------------------ sort options

SortBys == {"time", "score"}
SortOrders == {"asc", "desc"}

\* --------------------------------------------------------- input forests

\* The shapes of the ordered forests with exactly n nodes:
\* <<[kids |-> shape], ...>>.
RECURSIVE Shapes(_)
Shapes(n) ==
    IF n = 0 THEN {<<>>}
    ELSE UNION { { <<[kids |-> k]>> \o rest : k \in Shapes(j - 1), rest \in Shapes(n - j) } :
                 j \in 1..n }

RECURSIVE ShapeSize(_)
ShapeSize(f) ==
    IF f = <<>> THEN 0 ELSE 1 + ShapeSize(Head(f).kids) + ShapeSize(Tail(f))

\* A Comment (page component) for every node of the shape f, ids numbered in
\* pre-order from n, the node with id i given the body, score and time at[i].
\* With bare, a node without replies has no replies field.
RECURSIVE CommentsOf(_, _, _, _)
CommentsOf(f, n, at, bare) ==
    IF f = <<>> THEN <<>>
    ELSE LET h == Head(f)
         IN  << [ id |-> n,
                  author |-> <<"u", n>>,
                  body |-> at[n].body,
                  score |-> at[n].score,
                  created_utc |-> at[n].created_utc,
                  replies |-> IF bare /\ h.kids = <<>> THEN None
                              ELSE Some(CommentsOf(h.kids, n + 1, at, bare)) ] >>
             \o CommentsOf(Tail(f), n + 1 + ShapeSize(h.kids), at, bare)

\* <<score, created_utc>> of a comment given to sortComments: three scores
\* and two times, with ties in either and the two orders disagreeing.
SortStamps == {<<-1, 100>>, <<0, 0>>, <<2, 0>>, <<2, 100>>}

SortAttrs ==
    { [body |-> BodyHi, score |-> st[1], created_utc |-> st[2]] : st \in SortStamps }

\* tree is one of the trees given to sortComments: every shape up to
\* MaxNodes nodes, every stamp of SortStamps on every node, replies fields
\* all present (what the API route delivers) or absent on the childless nodes.
IsSortInput(tree) ==
    \E n \in 0..MaxNodes :
        \E f \in Shapes(n), at \in [1..n -> SortAttrs], bare \in BOOLEAN :
            tree = CommentsOf(f, 1, at, bare)

\* ------------------------------------------------------------ sortComments

\* Mutant of compare: a comparator that answers 1 or -1 only, a tie counted
\* as "greater".
compareTieAsGreater(a, b, sortBy, sortOrder) ==
    LET comparison ==
            IF sortBy = "time" THEN a.created_utc - b.created_utc
            ELSE IF sortBy = "score" THEN a.score - b.score
            ELSE 0
        signed == IF sortOrder = "asc" THEN comparison ELSE -comparison
    IN  IF signed >= 0 THEN 1 ELSE -1

\* Mutant of compare: the sign is turned for "asc" instead of "desc".
compareOrderSwapped(a, b, sortBy, sortOrder) ==
    LET comparison ==
            IF sortBy = "time" THEN a.created_utc - b.created_utc
            ELSE IF sortBy = "score" THEN a.score - b.score
            ELSE 0
    IN  IF sortOrder = "asc" THEN -comparison ELSE comparison

\* The comparator handed to Array.prototype.sort.
compare(a, b, sortBy, sortOrder) ==
    LET comparison ==
            IF sortBy = "time" THEN a.created_utc - b.created_utc
            ELSE IF sortBy = "score" THEN a.score - b.score
            ELSE 0
    IN  IF sortOrder = "asc" THEN comparison ELSE -comparison

\* One step of Array.prototype.sort: x placed into the sorted prefix s, behind
\* the last element that does not compare greater than x.
InsertSorted(s, x, sortBy, sortOrder) ==
    LET stays(i) == i = 0 \/ compare(s[i], x, sortBy, sortOrder) <= 0
        k == CHOOSE i \in 0..Len(s) :
                 stays(i) /\ \A j \in (i + 1)..Len(s) : ~stays(j)
    IN  SubSeq(s, 1, k) \o <<x>> \o SubSeq(s, k + 1, Len(s))

\* Mutant of ArraySort: descending order obtained by sorting ascending and
\* reversing the result.
RECURSIVE ArraySortReversed(_, _, _)
ArraySortReversed(arr, sortBy, sortOrder) ==
    IF sortOrder = "desc"
    THEN LET up == ArraySortReversed(arr, sortBy, "asc")
         IN  [ i \in 1..Len(up) |-> up[Len(up) + 1 - i] ]
    ELSE IF arr = <<>> THEN <<>>
    ELSE InsertSorted(ArraySortReversed(SubSeq(arr, 1, Len(arr) - 1), sortBy, "asc"),
                      arr[Len(arr)], sortBy, "asc")

\* Array.prototype.sort with the comparator above. ECMAScript requires the
\* sort to be stable; for a consistent comparator every stable sort returns
\* the same array, the one insertion sort computes.
RECURSIVE ArraySort(_, _, _)
ArraySort(arr, sortBy, sortOrder) ==
    IF arr = <<>> THEN <<>>
    ELSE InsertSorted(ArraySort(SubSeq(arr, 1, Len(arr) - 1), sortBy, sortOrder),
                      arr[Len(arr)], sortBy, sortOrder)

\* Mutant of sortComments: the replies are sorted only when there are at
\* least two of them, and are otherwise replaced by the empty list.
RECURSIVE sortCommentsSkipShort(_, _, _)
sortCommentsSkipShort(comments, sortBy, sortOrder) ==
    LET sorted == ArraySort(comments, sortBy, sortOrder)
    IN  [ i \in 1..Len(sorted) |->
            [ sorted[i] EXCEPT
                !.replies = Some(IF IsSome(@) /\ Len(Get(@)) > 1
                                 THEN sortCommentsSkipShort(Get(@), sortBy, sortOrder)
                                 ELSE <<>>) ] ]

\* Mutant of sortComments: only the list passed in is sorted, the replies are
\* copied as they are.
sortCommentsShallow(comments, sortBy, sortOrder) ==
    LET sorted == ArraySort(comments, sortBy, sortOrder)
    IN  [ i \in 1..Len(sorted) |->
            [ sorted[i] EXCEPT !.replies = Some(IF IsSome(@) THEN Get(@) ELSE <<>>) ] ]

\* Mutant of sortComments: replies: comment.replies && sortComments(...), so
\* a comment without a replies field gets none.
RECURSIVE sortCommentsKeepAbsent(_, _, _)
sortCommentsKeepAbsent(comments, sortBy, sortOrder) ==
    LET sorted == ArraySort(comments, sortBy, sortOrder)
    IN  [ i \in 1..Len(sorted) |->
            [ sorted[i] EXCEPT
                !.replies = IF IsSome(@)
                            THEN Some(sortCommentsKeepAbsent(Get(@), sortBy, sortOrder))
                            ELSE None ] ]

RECURSIVE sortComments(_, _, _)
sortComments(comments, sortBy, sortOrder) ==
    LET sorted == ArraySort(comments, sortBy, sortOrder)
    IN  [ i \in 1..Len(sorted) |->
            [ sorted[i] EXCEPT
                !.replies = Some(IF IsSome(@)
                                 THEN sortComments(Get(@), sortBy, sortOrder)
                                 ELSE <<>>) ] ]

\* Mutant of sortCommentsArg: comments.sort(...) without the copy, so the
\* array passed in is sorted in place, and so is every replies array.
RECURSIVE sortCommentsArgInPlace(_, _, _)
sortCommentsArgInPlace(comments, sortBy, sortOrder) ==
    LET sorted == ArraySort(comments, sortBy, sortOrder)
    IN  [ i \in 1..Len(sorted) |->
            [ sorted[i] EXCEPT
                !.replies = IF IsSome(@)
                            THEN Some(sortCommentsArgInPlace(Get(@), sortBy, sortOrder))
                            ELSE @ ] ]

\* The contents of the array passed as comments once sortComments has
\* returned. The sort runs on the copy [...comments], map builds new objects,
\* and each recursive call receives the node's own replies array.
RECURSIVE sortCommentsArg(_, _, _)
sortCommentsArg(comments, sortBy, sortOrder) ==
    [ i \in 1..Len(comments) |->
        [ comments[i] EXCEPT
            !.replies = IF IsSome(@)
                        THEN Some(sortCommentsArg(Get(@), sortBy, sortOrder))
                        ELSE @ ] ]

\* ------------------------------------------------------------ parseComments

Kinds == {"t1", "more"}
RawBodies == {BodyHi, Deleted}
\* <<score, created_utc>> of a raw node.
RawStamps == {<<-1, 0>>, <<2, -100>>}

RawAttrs ==
    { [kind |-> k, body |-> b, score |-> st[1], created_utc |-> st[2]] :
        k \in Kinds, b \in RawBodies, st \in RawStamps }

\* A RedditComment for every node of the shape f, ids numbered in pre-order
\* from n, the node with id i given the kind, body, score and time at[i].
\* With bare, a node without replies has no reply container.
RECURSIVE RawOf(_, _, _, _)
RawOf(f, n, at, bare) ==
    IF f = <<>> THEN <<>>
    ELSE LET h == Head(f)
         IN  << [ kind |-> at[n].kind,
                  data |-> [ id |-> n,
                             author |-> <<"u", n>>,
                             body |-> at[n].body,
                             score |-> at[n].score,
                             created_utc |-> at[n].created_utc,
                             replies |->
                                 IF bare /\ h.kids = <<>> THEN None
                                 ELSE Some([data |-> Some([children |->
                                        Some(RawOf(h.kids, n + 1, at, bare))])]) ] ] >>
             \o RawOf(Tail(f), n + 1 + ShapeSize(h.kids), at, bare)

\* payload is one of the payloads given to parseComments: every shape up to
\* MaxRawNodes nodes, every kind, body and stamp above, the childless nodes
\* with an empty reply container or with none.
IsRawInput(payload) ==
    \E n \in 0..MaxRawNodes :
        \E f \in Shapes(n), at \in [1..n -> RawAttrs], bare \in BOOLEAN :
            payload = RawOf(f, 1, at, bare)

\* comment.data.replies.data.children of a well-formed reply container.
children(replies) == Get(Get(replies.data).children)

\* A reply container is an object; its data and the children of its data are
\* read without a test, so a container without them is malformed.
WellFormed(replies) == IsSome(replies.data) /\ IsSome(Get(replies.data).children)

\* Mutant of parseComments: the filter tests the kind only.
RECURSIVE parseCommentsKeepDeleted(_)
parseCommentsKeepDeleted(comments) ==
    LET kept == SelectSeq(comments, LAMBDA comment : comment.kind = "t1")
    IN  [ i \in 1..Len(kept) |->
            [ id |-> kept[i].data.id,
              author |-> kept[i].data.author,
              body |-> kept[i].data.body,
              score |-> kept[i].data.score,
              created_utc |-> kept[i].data.created_utc,
              replies |-> Some(IF IsSome(kept[i].data.replies)
                               THEN parseCommentsKeepDeleted(
                                        children(Get(kept[i].data.replies)))
                               ELSE <<>>) ] ]

\* Mutant of parseComments: the result is built back to front.
RECURSIVE parseCommentsReversed(_)
parseCommentsReversed(comments) ==
    LET kept == SelectSeq(comments,
                          LAMBDA comment :
                              comment.kind = "t1" /\ comment.data.body # Deleted)
    IN  [ i \in 1..Len(kept) |->
            LET comment == kept[Len(kept) + 1 - i]
            IN  [ id |-> comment.data.id,
                  author |-> comment.data.author,
                  body |-> comment.data.body,
                  score |-> comment.data.score,
                  created_utc |-> comment.data.created_utc,
                  replies |-> Some(IF IsSome(comment.data.replies)
                                   THEN parseCommentsReversed(
                                            children(Get(comment.data.replies)))
                                   ELSE <<>>) ] ]

\* Mutant of parseComments: score: Math.max(0, comment.data.score).
RECURSIVE parseCommentsClampScore(_)
parseCommentsClampScore(comments) ==
    LET kept == SelectSeq(comments,
                          LAMBDA comment :
                              comment.kind = "t1" /\ comment.data.body # Deleted)
    IN  [ i \in 1..Len(kept) |->
            [ id |-> kept[i].data.id,
              author |-> kept[i].data.author,
              body |-> kept[i].data.body,
              score |-> IF kept[i].data.score < 0 THEN 0 ELSE kept[i].data.score,
              created_utc |-> kept[i].data.created_utc,
              replies |-> Some(IF IsSome(kept[i].data.replies)
                               THEN parseCommentsClampScore(
                                        children(Get(kept[i].data.replies)))
                               ELSE <<>>) ] ]

\* parseComments(comments): filter, then map; a ParsedComment always has a
\* replies array.
RECURSIVE parseComments(_)
parseComments(comments) ==
    LET kept == SelectSeq(comments,
                          LAMBDA comment :
                              comment.kind = "t1" /\ comment.data.body # Deleted)
    IN  [ i \in 1..Len(kept) |->
            [ id |-> kept[i].data.id,
              author |-> kept[i].data.author,
              body |-> kept[i].data.body,
              score |-> kept[i].data.score,
              created_utc |-> kept[i].data.created_utc,
              replies |-> Some(IF IsSome(kept[i].data.replies)
                               THEN parseComments(children(Get(kept[i].data.replies)))
                               ELSE <<>>) ] ]

\* Mutant of parseCommentsThrows: an empty array is refused with an error.
RECURSIVE parseCommentsThrowsOnEmpty(_)
parseCommentsThrowsOnEmpty(comments) ==
    \/ comments = <<>>
    \/ \E i \in DOMAIN comments :
          /\ comments[i].kind = "t1" /\ comments[i].data.body # Deleted
          /\ IsSome(comments[i].data.replies)
          /\ \/ ~WellFormed(Get(comments[i].data.replies))
             \/ parseCommentsThrowsOnEmpty(children(Get(comments[i].data.replies)))

\* parseComments(comments) throws a TypeError instead of returning: a kept
\* comment has a truthy replies whose data is undefined (reading children of
\* undefined) or whose data has no children (calling filter of undefined), or
\* the call on its children throws. The filter runs first and reads only kind
\* and data.body; the exception leaves through every enclosing map.
RECURSIVE parseCommentsThrows(_)
parseCommentsThrows(comments) ==
    \E i \in DOMAIN comments :
        /\ comments[i].kind = "t1" /\ comments[i].data.body # Deleted
        /\ IsSome(comments[i].data.replies)
        /\ \/ ~WellFormed(Get(comments[i].data.replies))
           \/ parseCommentsThrows(children(Get(comments[i].data.replies)))

\* What a reply container can hold: the children list, an object without
\* data, or a data object without children.
Containers == {"children", "no data", "no children"}

\* <<kind, body>> of the raw nodes of the payloads with malformed containers.
MalformedKinds == {<<"t1", BodyHi>>, <<"t1", Deleted>>, <<"more", BodyHi>>}

MalformedAttrs ==
    { [kind |-> kb[1], body |-> kb[2], score |-> 2, created_utc |-> 0] :
        kb \in MalformedKinds }

\* The payload with the reply container of the node with id i made
\* has[i]: left as it is, or replaced by a malformed one.
RECURSIVE WithContainers(_, _)
WithContainers(payload, has) ==
    [ i \in DOMAIN payload |->
        LET comment == payload[i]
        IN  IF has[comment.data.id] = "no data"
            THEN [comment EXCEPT !.data.replies = Some([data |-> None])]
            ELSE IF has[comment.data.id] = "no children"
            THEN [comment EXCEPT !.data.replies =
                      Some([data |-> Some([children |-> None])])]
            ELSE IF IsSome(comment.data.replies)
            THEN [comment EXCEPT !.data.replies =
                      Some([data |-> Some([children |->
                          Some(WithContainers(children(Get(@)), has))])])]
            ELSE comment ]

\* payload is a response body whose reply containers need not be well formed.
IsAnyRawInput(payload) ==
    \E n \in 0..MaxRawNodes :
        \E f \in Shapes(n), at \in [1..n -> MalformedAttrs], bare \in BOOLEAN,
           has \in [1..n -> Containers] :
            payload = WithContainers(RawOf(f, 1, at, bare), has)

\* ---------------------------------------------------------- flattenComments

\* Mutant of replaceNewlines: body.replace('\n', ' '), which replaces the
\* first newline only.
replaceFirstNewline(body) ==
    [ i \in 1..Len(body) |->
        IF body[i] = "\n" /\ \A j \in 1..(i - 1) : body[j] # "\n"
        THEN " " ELSE body[i] ]

\* body.replace(/\n/g, ' ')
replaceNewlines(body) ==
    [ i \in 1..Len(body) |-> IF body[i] = "\n" THEN " " ELSE body[i] ]

\* new Date(created_utc * 1000).toLocaleString('zh-CN'): the text depends on
\* the instant and the locale (and the host's time zone, which is fixed).
toLocaleString(ms, locale) == [locale |-> locale, ms |-> ms]

\* One ExcelRow; the columns are named level, commentId, author, content,
\* score, publishedTime and timestamp.
ExcelRow(comment, depth) ==
    [ level |-> depth,
      commentId |-> comment.id,
      author |-> comment.author,
      content |-> replaceNewlines(comment.body),
      score |-> comment.score,
      publishedTime |-> toLocaleString(comment.created_utc * 1000, "zh-CN"),
      timestamp |-> comment.created_utc ]

\* Mutant of flattenComments: the rows of the replies are computed and not
\* added to the result.
flattenCommentsTopOnly(comments, depth) ==
    [ i \in 1..Len(comments) |-> ExcelRow(comments[i], depth) ]

\* Mutant of flattenComments: the replies are flattened at the depth of
\* their parent.
RECURSIVE flattenCommentsSameDepth(_, _)
flattenCommentsSameDepth(comments, depth) ==
    IF comments = <<>> THEN <<>>
    ELSE LET comment == Head(comments)
         IN  <<ExcelRow(comment, depth)>>
             \o (IF IsSome(comment.replies) /\ Len(Get(comment.replies)) > 0
                 THEN flattenCommentsSameDepth(Get(comment.replies), depth)
                 ELSE <<>>)
             \o flattenCommentsSameDepth(Tail(comments), depth)

\* Mutant of flattenComments: the rows of the replies are added after the
\* rows of all the siblings.
RECURSIVE flattenCommentsRepliesLast(_, _)
flattenCommentsRepliesLast(comments, depth) ==
    IF comments = <<>> THEN <<>>
    ELSE LET comment == Head(comments)
         IN  <<ExcelRow(comment, depth)>>
             \o flattenCommentsRepliesLast(Tail(comments), depth)
             \o (IF IsSome(comment.replies) /\ Len(Get(comment.replies)) > 0
                 THEN flattenCommentsRepliesLast(Get(comment.replies), depth + 1)
                 ELSE <<>>)

\* flattenComments(comments, depth): for each comment in turn, its row and
\* then the rows of its replies.
RECURSIVE flattenComments(_, _)
flattenComments(comments, depth) ==
    IF comments = <<>> THEN <<>>
    ELSE LET comment == Head(comments)
         IN  <<ExcelRow(comment, depth)>>
             \o (IF IsSome(comment.replies) /\ Len(Get(comment.replies)) > 0
                 THEN flattenComments(Get(comment.replies), depth + 1)
                 ELSE <<>>)
             \o flattenComments(Tail(comments), depth)

\* <<score, created_utc>> of a comment given to flattenComments.
FlattenStamps == {<<-1, 0>>, <<2, 100>>}

FlattenAttrs ==
    { [body |-> b, score |-> st[1], created_utc |-> st[2]] :
        b \in {BodyHi, BodyTwoLines}, st \in FlattenStamps }

\* tree is one of the trees given to flattenComments.
IsFlattenInput(tree) ==
    \E n \in 0..MaxNodes :
        \E f \in Shapes(n), at \in [1..n -> FlattenAttrs], bare \in BOOLEAN :
            tree = CommentsOf(f, 1, at, bare)

\* ------------------------------------------------ route.ts: rate limit

RATE_LIMIT_WINDOW == 60000
MAX_REQUESTS_PER_WINDOW == 10

\* Strings are sequences of characters. The decimal digits, by value + 1.
Digits == <<"0", "1", "2", "3", "4", "5", "6", "7", "8", "9">>

IsDigit(c) == \E d \in DOMAIN Digits : Digits[d] = c

DigitValue(c) == (CHOOSE d \in DOMAIN Digits : Digits[d] = c) - 1

\* `${n}` for an integer n >= 0: its decimal digits.
RECURSIVE NumberToString(_)
NumberToString(n) ==
    IF n < 10 THEN <<Digits[n + 1]>>
    ELSE NumberToString(n \div 10) \o <<Digits[(n % 10) + 1]>>

\* The value of the leading decimal digits of str, after acc.
RECURSIVE ParseDigits(_, _)
ParseDigits(str, acc) ==
    IF str = <<>> \/ ~IsDigit(Head(str)) THEN acc
    ELSE ParseDigits(Tail(str), acc * 10 + DigitValue(Head(str)))

\* parseInt(str): the number written by the leading digits of str, NaN (None)
\* when str does not start with a digit. (The strings here hold no white
\* space, sign or 0x prefix.)
parseInt(str) ==
    IF str = <<>> \/ ~IsDigit(Head(str)) THEN None ELSE Some(ParseDigits(str, 0))

\* str.split(sep) for a separator of one character.
RECURSIVE split(_, _)
split(str, sep) ==
    IF \A i \in DOMAIN str : str[i] # sep THEN <<str>>
    ELSE LET k == CHOOSE i \in DOMAIN str :
                      str[i] = sep /\ \A j \in 1..(i - 1) : str[j] # sep
         IN  <<SubSeq(str, 1, k - 1)>> \o split(SubSeq(str, k + 1, Len(str)), sep)

\* key = `${ip}_${Math.floor(now / RATE_LIMIT_WINDOW)}`
key(ip, now) == ip \o <<"_">> \o NumberToString(now \div RATE_LIMIT_WINDOW)

\* requestCache.get(key) || 0
count(requestCache, ip, now) ==
    IF key(ip, now) \in DOMAIN requestCache THEN requestCache[key(ip, now)] ELSE 0

\* keyTime = parseInt(cacheKey.split('_')[1]) * RATE_LIMIT_WINDOW, NaN when
\* parseInt gives NaN.
keyTime(cacheKey) ==
    LET n == parseInt(split(cacheKey, "_")[2])
    IN  IF IsSome(n) THEN Some(Get(n) * RATE_LIMIT_WINDOW) ELSE None

\* now - keyTime > RATE_LIMIT_WINDOW * 2, false when keyTime is NaN.
isExpired(cacheKey, now) ==
    /\ IsSome(keyTime(cacheKey))
    /\ now - Get(keyTime(cacheKey)) > RATE_LIMIT_WINDOW * 2

\* checkRateLimit(ip) at the time now: what it returns and the requestCache
\* it leaves. A refusal returns before the cache is touched; otherwise the
\* count is written and then every entry is tested for deletion, the entry
\* just written included.
checkRateLimit(requestCache, ip, now) ==
    IF count(requestCache, ip, now) >= MAX_REQUESTS_PER_WINDOW
    THEN [returns |-> FALSE, requestCache |-> requestCache]
    ELSE LET written == [ k \in DOMAIN requestCache \cup {key(ip, now)} |->
                            IF k = key(ip, now) THEN count(requestCache, ip, now) + 1
                            ELSE requestCache[k] ]
             left == { k \in DOMAIN written : ~isExpired(k, now) }
         IN  [returns |-> TRUE, requestCache |-> [ k \in left |-> written[k] ]]

\* The client addresses of the requests: the default of GET, a dotted address,
\* and two strings with an underscore, as a header can carry them.
DefaultIP == <<"1", "2", "7", ".", "0", ".", "0", ".", "1">>
DottedIP == <<"8", ".", "8">>
UnderscoreDigitIP == <<"x", "_", "0">>
UnderscoreLetterIP == <<"x", "_", "y">>

\* The values of the x-forwarded-for header and of the x-real-ip header.
ForwardedFors == {None, Some(UnderscoreDigitIP), Some(UnderscoreLetterIP)}
RealIps == {None, Some(DottedIP)}

\* request.headers.get('x-forwarded-for') || request.headers.get('x-real-ip')
\* || '127.0.0.1'
clientIP(forwardedFor, realIp) ==
    IF IsSome(forwardedFor) /\ Get(forwardedFor) # <<>> THEN Get(forwardedFor)
    ELSE IF IsSome(realIp) /\ Get(realIp) # <<>> THEN Get(realIp)
    ELSE DefaultIP

\* The error texts of GET, in English: '缺少URL参数' and
\* '请求过于频繁，请稍后重试'.
ErrNoUrl == "url parameter missing"
ErrTooFrequent == "too many requests, retry later"

\* ------------------------------------------------------------------ state

VARIABLES
    \* a call of one of the pure functions: its argument before the call, the
    \* contents of the argument array after it, what it returned, and which
    \* function was called with which options
    arg, argAfter, ret, call,
    \* the page component (Home): its useState cells ...
    url, comments, loading, error, sortBy, sortOrder,
    \* ... the value held by its useMemo, the extractComments runs that await
    \* their response, what the handler that ran last handed to the
    \* spreadsheet writer, and the array the last extractComments run passed
    \* to setComments
    sortedComments, inflight, exported, fetched,
    \* the API route: the clock (Date.now()), the module's requestCache, the
    \* number of calls of checkRateLimit that returned true per client address
    \* and window, the calls of fetchWithRetry so far, the response and the
    \* checkRateLimit call of the GET that ran last
    now, requestCache, granted, upstream, response, check,
    \* a call of fetchWithRetry: where it stands, its maxRetries, the loop
    \* variables attempt and shuffledEndpoints with the position of the inner
    \* loop in it, lastError, what the call returned or threw, and about the
    \* call: the fetches issued, the endpoints fetched in the current round
    \* and the one kind of answer that all its fetches got ("none" before the
    \* first answer, "mixed" once two answers differ) and the kind of the
    \* answer that came last
    pc, maxRetries, attempt, shuffledEndpoints, position, lastError, result,
    fetchCount, roundFetches, seen, lastAnswer

fnVars == <<arg, argAfter, ret, call>>
uiVars == <<url, comments, loading, error, sortBy, sortOrder,
            sortedComments, inflight, exported, fetched>>
routeVars == <<now, requestCache, granted, upstream, response, check>>
retryVars == <<pc, maxRetries, attempt, shuffledEndpoints, position, lastError,
               result, fetchCount, roundFetches, seen, lastAnswer>>
vars == <<arg, argAfter, ret, call, url, comments, loading, error, sortBy,
          sortOrder, sortedComments, inflight, exported, fetched,
          now, requestCache, granted, upstream, response, check,
          pc, maxRetries, attempt, shuffledEndpoints, position, lastError,
          result, fetchCount, roundFetches, seen, lastAnswer>>

NoCall == [fn |-> "none", sortBy |-> "time", sortOrder |-> "desc", depth |-> 0,
           again |-> FALSE, threw |-> FALSE, raw |-> FALSE]

NoExport == [alert |-> "none", rows |-> <<>>]

\* The page as first rendered.
UiInit ==
    /\ url = ""
    /\ comments = <<>>
    /\ loading = FALSE
    /\ error = ""
    /\ sortBy = "time"
    /\ sortOrder = "desc"
    /\ sortedComments = <<>>
    /\ inflight = 0
    /\ exported = NoExport
    /\ fetched = <<>>

NoResponse == [status |-> 0, error |-> "", fetched |-> FALSE]

NoCheck == [called |-> FALSE, ip |-> <<>>, returned |-> FALSE]

\* The API route as the module is loaded: the cache empty, no request yet.
RouteIdle ==
    /\ now = 0
    /\ requestCache = <<>>
    /\ granted = <<>>
    /\ upstream = 0
    /\ response = NoResponse
    /\ check = NoCheck

\* No call of fetchWithRetry yet.
RetryIdle ==
    /\ pc = "idle"
    /\ maxRetries = 0
    /\ attempt = 0
    /\ shuffledEndpoints = <<>>
    /\ position = 0
    /\ lastError = None
    /\ result = None
    /\ fetchCount = 0
    /\ roundFetches = <<>>
    /\ seen = "none"
    /\ lastAnswer = "none"

FnIdle ==
    /\ arg = <<>>
    /\ argAfter = <<>>
    /\ ret = <<>>
    /\ call = NoCall

\* ------------------------------------------- specification: sortComments

SortInit ==
    /\ IsSortInput(arg)
    /\ argAfter = arg
    /\ ret = <<>>
    /\ call = NoCall
    /\ UiInit
    /\ RouteIdle
    /\ RetryIdle

\* sortComments(arg, by, ord), on the array as the previous call left it.
CallSort(by, ord) ==
    /\ arg' = argAfter
    /\ ret' = sortComments(argAfter, by, ord)
    /\ argAfter' = sortCommentsArg(argAfter, by, ord)
    /\ call' = [NoCall EXCEPT !.fn = "sortComments", !.sortBy = by,
                               !.sortOrder = ord]
    /\ UNCHANGED uiVars
    /\ UNCHANGED routeVars
    /\ UNCHANGED retryVars

\* sortComments applied to the tree the previous call returned, with the
\* same options.
CallSortAgain ==
    /\ call.fn = "sortComments"
    /\ ~call.again
    /\ arg' = ret
    /\ ret' = sortComments(ret, call.sortBy, call.sortOrder)
    /\ argAfter' = sortCommentsArg(ret, call.sortBy, call.sortOrder)
    /\ call' = [call EXCEPT !.again = TRUE]
    /\ UNCHANGED uiVars
    /\ UNCHANGED routeVars
    /\ UNCHANGED retryVars

SortNext ==
    \/ \E by \in SortBys, ord \in SortOrders : CallSort(by, ord)
    \/ CallSortAgain

SpecSort == SortInit /\ [][SortNext]_vars

\* ------------------------------------------ specification: parseComments

NormalizeInit ==
    /\ IsRawInput(arg)
    /\ argAfter = arg
    /\ ret = <<>>
    /\ call = NoCall
    /\ UiInit
    /\ RouteIdle
    /\ RetryIdle

\* parseComments(arg): it returns the parsed comments, or throws and returns
\* nothing.
CallParse ==
    /\ call.fn = "none"
    /\ IF parseCommentsThrows(arg)
       THEN /\ ret' = <<>>
            /\ call' = [call EXCEPT !.fn = "parseComments", !.threw = TRUE]
       ELSE /\ ret' = parseComments(arg)
            /\ call' = [call EXCEPT !.fn = "parseComments"]
    /\ UNCHANGED <<arg, argAfter>>
    /\ UNCHANGED uiVars
    /\ UNCHANGED routeVars
    /\ UNCHANGED retryVars

NormalizeNext == CallParse

SpecNormalize == NormalizeInit /\ [][NormalizeNext]_vars

\* parseComments on payloads whose reply containers need not be well formed.
NormalizeAnyInit ==
    /\ IsAnyRawInput(arg)
    /\ argAfter = arg
    /\ ret = <<>>
    /\ call = NoCall
    /\ UiInit
    /\ RouteIdle
    /\ RetryIdle

SpecNormalizeAny == NormalizeAnyInit /\ [][NormalizeNext]_vars

\* ---------------------------------------- specification: flattenComments

FlattenInit ==
    /\ IsFlattenInput(arg)
    /\ argAfter = arg
    /\ ret = <<>>
    /\ call = NoCall
    /\ UiInit
    /\ RouteIdle
    /\ RetryIdle

\* flattenComments(arg), depth defaulting to 0
CallFlatten ==
    /\ call.fn = "none"
    /\ ret' = flattenComments(arg, 0)
    /\ call' = [NoCall EXCEPT !.fn = "flattenComments"]
    /\ UNCHANGED <<arg, argAfter>>
    /\ UNCHANGED uiVars
    /\ UNCHANGED routeVars
    /\ UNCHANGED retryVars

FlattenNext == CallFlatten

SpecFlatten == FlattenInit /\ [][FlattenNext]_vars

\* ----------------------------------------------- specification: pipeline

BodyYo == <<"y", "o">>

\* The payload of two top-level comments a and c, a with the deleted reply b:
\* ids 1, 2, 3 for a, b, c.
ExampleRaw ==
    << [ kind |-> "t1",
         data |-> [ id |-> 1, author |-> <<"u", 1>>, body |-> BodyHi, score |-> 5,
                    created_utc |-> 100,
                    replies |-> Some([data |-> Some([children |-> Some(
                        << [ kind |-> "t1",
                             data |-> [ id |-> 2, author |-> <<"u", 2>>,
                                        body |-> Deleted, score |-> 0,
                                        created_utc |-> 101,
                                        replies |-> None ] ] >>)])]) ] ],
       [ kind |-> "t1",
         data |-> [ id |-> 3, author |-> <<"u", 3>>, body |-> BodyYo, score |-> 2,
                    created_utc |-> 50, replies |-> None ] ] >>

\* The raw nodes of the payloads sent through the pipeline: two genuine
\* comments that tie on neither key or differ on both, a deleted comment and
\* a node of another kind.
PipelineAttrs ==
    { [kind |-> "t1", body |-> BodyHi, score |-> 2, created_utc |-> 0],
      [kind |-> "t1", body |-> BodyHi, score |-> -1, created_utc |-> 100],
      [kind |-> "t1", body |-> Deleted, score |-> 2, created_utc |-> 100],
      [kind |-> "more", body |-> BodyHi, score |-> 2, created_utc |-> 0] }

IsPipelineInput(payload) ==
    \/ payload = ExampleRaw
    \/ \E n \in 0..MaxRawNodes :
          \E f \in Shapes(n), at \in [1..n -> PipelineAttrs], bare \in BOOLEAN :
              payload = RawOf(f, 1, at, bare)

\* Either a raw payload on its way to parseComments, or a comment tree that
\* is at hand already (the state of the page holds one from the start).
PipelineInit ==
    /\ \/ /\ IsPipelineInput(arg)
          /\ ret = <<>>
          /\ call = [NoCall EXCEPT !.raw = TRUE]
       \/ /\ IsSortInput(arg)
          /\ ret = arg
          /\ call = [NoCall EXCEPT !.fn = "given"]
    /\ argAfter = arg
    /\ UiInit
    /\ RouteIdle
    /\ RetryIdle

\* sortComments(ret, by, ord) on the tree the stage before returned.
PipeSort(by, ord) ==
    /\ call.fn \in {"given", "parseComments", "sortComments"}
    /\ ~call.threw
    /\ ret' = sortComments(ret, by, ord)
    /\ call' = [call EXCEPT !.fn = "sortComments", !.sortBy = by, !.sortOrder = ord]
    /\ UNCHANGED <<arg, argAfter>>
    /\ UNCHANGED uiVars
    /\ UNCHANGED routeVars
    /\ UNCHANGED retryVars

\* flattenComments(ret) on the sorted tree.
PipeFlatten ==
    /\ call.fn = "sortComments"
    /\ ret' = flattenComments(ret, 0)
    /\ call' = [call EXCEPT !.fn = "flattenComments"]
    /\ UNCHANGED <<arg, argAfter>>
    /\ UNCHANGED uiVars
    /\ UNCHANGED routeVars
    /\ UNCHANGED retryVars

PipelineNext ==
    \/ CallParse
    \/ \E by \in SortBys, ord \in SortOrders : PipeSort(by, ord)
    \/ PipeFlatten

SpecPipeline == PipelineInit /\ [][PipelineNext]_vars

\* ------------------------------------------- specification: the API route

\* The values of the url parameter of a request.
UrlParams == {None, Some("https://www.reddit.com/r/a/comments/b/c")}

\* What GET can answer once fetchWithRetry was called: the comments, or the
\* message of an error caught.
Fetched == {[status |-> 200, error |-> ""], [status |-> 500, error |-> "error"]}

\* GET(request): 400 without a url; 429 when checkRateLimit refuses; else
\* fetchWithRetry is called and the answer is 200 or 500.
GET(urlParam, forwardedFor, realIp) ==
    IF ~IsSome(urlParam)
    THEN /\ response' = [status |-> 400, error |-> ErrNoUrl, fetched |-> FALSE]
         /\ check' = NoCheck
         /\ UNCHANGED <<now, requestCache, granted, upstream>>
         /\ UNCHANGED <<fnVars, uiVars, retryVars>>
    ELSE LET ip == clientIP(forwardedFor, realIp)
             limit == checkRateLimit(requestCache, ip, now)
             slot == <<ip, now \div RATE_LIMIT_WINDOW>>
         IN  /\ limit.returns =>
                   /\ upstream < MaxRequests
                   /\ Cardinality(DOMAIN granted \cup {slot}) <= MaxSlots
             /\ check' = [called |-> TRUE, ip |-> ip, returned |-> limit.returns]
             /\ requestCache' = limit.requestCache
             /\ IF ~limit.returns
                THEN /\ response' = [status |-> 429, error |-> ErrTooFrequent,
                                     fetched |-> FALSE]
                     /\ UNCHANGED <<granted, upstream>>
                ELSE /\ granted' =
                           [ g \in DOMAIN granted \cup {slot} |->
                               IF g = slot
                               THEN (IF slot \in DOMAIN granted
                                     THEN granted[slot] ELSE 0) + 1
                               ELSE granted[g] ]
                     /\ upstream' = upstream + 1
                     /\ \E outcome \in Fetched :
                           response' = [status |-> outcome.status,
                                        error |-> outcome.error, fetched |-> TRUE]
             /\ UNCHANGED now
             /\ UNCHANGED <<fnVars, uiVars, retryVars>>

\* Time passes between two requests.
Tick ==
    /\ now < MaxTicks * (RATE_LIMIT_WINDOW \div 2)
    /\ now' = now + RATE_LIMIT_WINDOW \div 2
    /\ check' = NoCheck
    /\ UNCHANGED <<requestCache, granted, upstream, response>>
    /\ UNCHANGED <<fnVars, uiVars, retryVars>>

RouteInit == FnIdle /\ UiInit /\ RouteIdle /\ RetryIdle

RouteNext ==
    \/ \E urlParam \in UrlParams, forwardedFor \in ForwardedFors, realIp \in RealIps :
          GET(urlParam, forwardedFor, realIp)
    \/ Tick

SpecRoute == RouteInit /\ [][RouteNext]_vars

\* ------------------------------ specification: fetchWithRetry (route.ts)

REDDIT_ENDPOINTS ==
    <<"https://www.reddit.com", "https://old.reddit.com", "https://np.reddit.com",
      "https://i.reddit.com", "https://m.reddit.com">>

\* The default of the parameter maxRetries.
DefaultMaxRetries == 5

\* The values of maxRetries of the calls: GET passes none, so the default;
\* and a call with one round and a call with no round.
MaxRetriesGiven == {0, 1, DefaultMaxRetries}

\* [...REDDIT_ENDPOINTS].sort(() => Math.random() - 0.5): the endpoints in an
\* order that the random comparator and the engine's sort decide.
Shuffles ==
    { order \in [DOMAIN REDDIT_ENDPOINTS -> {REDDIT_ENDPOINTS[i] : i \in DOMAIN REDDIT_ENDPOINTS}] :
        \A i, j \in DOMAIN order : order[i] = order[j] => i = j }

\* How an awaited fetch can settle: a response with a status, or a rejection
\* (network error, or the abort after 60 seconds).
Settlements ==
    { [kind |-> "response", status |-> st] : st \in {200, 403, 429, 500} }
    \cup {[kind |-> "rejected", status |-> 0]}

\* response.ok
ok(res) == res.status >= 200 /\ res.status <= 299

\* The messages of the errors, in English where the source is not:
\* 'All endpoints failed after maximum retries', `HTTP ${status}: ...`, the
\* message of a rejected fetch, '访问被拒绝 (403): ...', '请求过于频繁 (429): ...',
\* `HTTP error! status: ...`, '无效的Reddit数据格式', and the message of an
\* exception of response.json() or parseComments.
ErrAllFailed == "All endpoints failed after maximum retries"
ErrHttpStatus == "HTTP 500: status text"
ErrNetwork == "fetch failed"
ErrDenied403 == "access denied (403)"
ErrTooFrequent429 == "too many requests (429)"
ErrHttpError == "HTTP error! status"
ErrInvalidFormat == "invalid reddit data format"
ErrException == "exception while reading the body"

\* Mutant of loopGoesOn: the loop runs while attempt <= maxRetries + 1.
loopGoesOnOnceMore(n, given) == n <= given + 1

\* attempt <= maxRetries, the condition of the outer loop, for attempt = n.
loopGoesOn(n, given) == n <= given

\* throw lastError || new Error('All endpoints failed after maximum retries')
thrown(err) ==
    Some([kind |-> "error", status |-> 0,
          message |-> IF IsSome(err) THEN Get(err) ELSE ErrAllFailed])

\* fetchWithRetry(url, clientIP, given) is called by a GET that has not
\* answered yet: lastError = null and the outer loop starts at attempt 1, or
\* ends at once.
CallFetchWithRetry(given) ==
    /\ pc = "idle"
    /\ maxRetries' = given
    /\ lastError' = None
    /\ shuffledEndpoints' = <<>>
    /\ position' = 0
    /\ fetchCount' = 0
    /\ roundFetches' = <<>>
    /\ seen' = "none"
    /\ lastAnswer' = "none"
    /\ IF loopGoesOn(1, given)
       THEN pc' = "shuffle" /\ result' = None /\ attempt' = 1
       ELSE pc' = "thrown" /\ result' = thrown(None) /\ attempt' = 0
    /\ response' = NoResponse
    /\ UNCHANGED <<now, requestCache, granted, upstream, check>>
    /\ UNCHANGED <<fnVars, uiVars>>

\* The head of the outer loop: the endpoints are shuffled for this round.
Shuffle(order) ==
    /\ pc = "shuffle"
    /\ shuffledEndpoints' = order
    /\ position' = 1
    /\ roundFetches' = <<>>
    /\ pc' = "fetch"
    /\ UNCHANGED <<maxRetries, attempt, lastError, result, fetchCount, seen,
                   lastAnswer>>
    /\ UNCHANGED <<fnVars, uiVars, routeVars>>

\* The body of the inner loop up to its await: after the delay, the fetch of
\* the endpoint at hand is issued.
Fetch ==
    /\ pc = "fetch"
    /\ fetchCount' = fetchCount + 1
    /\ roundFetches' = Append(roundFetches, shuffledEndpoints[position])
    /\ pc' = "await"
    /\ UNCHANGED <<maxRetries, attempt, shuffledEndpoints, position, lastError,
                   result, seen, lastAnswer>>
    /\ UNCHANGED <<fnVars, uiVars, routeVars>>

\* The kind of a settlement.
kindOf(res) ==
    IF res.kind = "rejected" THEN "rejected"
    ELSE IF ok(res) THEN "ok"
    ELSE IF res.status = 403 THEN "403"
    ELSE IF res.status = 429 THEN "429"
    ELSE "other"

\* The awaited fetch settles. An ok response is returned; 403 and 429 go on
\* to the next endpoint; another status or a rejection is kept in lastError
\* and goes on as well. After the last endpoint the next round starts, and
\* after the last round lastError or the default error is thrown. With the
\* return or the throw the variables of the call are gone.
Settle(res) ==
    /\ pc = "await"
    /\ seen' = IF seen \in {"none", kindOf(res)} THEN kindOf(res) ELSE "mixed"
    /\ lastAnswer' = kindOf(res)
    /\ IF res.kind = "response" /\ ok(res)
       THEN /\ result' = Some([kind |-> "response", status |-> res.status,
                               message |-> ""])
            /\ pc' = "returned"
            /\ attempt' = 0
            /\ position' = 0
            /\ shuffledEndpoints' = <<>>
            /\ lastError' = None
       ELSE LET err == IF res.kind = "rejected" THEN Some(ErrNetwork)
                       ELSE IF res.status = 403 \/ res.status = 429 THEN lastError
                       ELSE Some(ErrHttpStatus)
            IN  IF position < Len(shuffledEndpoints)
                THEN /\ position' = position + 1
                     /\ pc' = "fetch"
                     /\ lastError' = err
                     /\ UNCHANGED <<attempt, result, shuffledEndpoints>>
                ELSE IF loopGoesOn(attempt + 1, maxRetries)
                THEN /\ attempt' = attempt + 1
                     /\ pc' = "shuffle"
                     /\ lastError' = err
                     /\ UNCHANGED <<position, result, shuffledEndpoints>>
                ELSE /\ pc' = "thrown"
                     /\ result' = thrown(err)
                     /\ attempt' = 0
                     /\ position' = 0
                     /\ shuffledEndpoints' = <<>>
                     /\ lastError' = None
    /\ UNCHANGED <<maxRetries, fetchCount, roundFetches>>
    /\ UNCHANGED <<fnVars, uiVars, routeVars>>

\* What GET finds in the body of an ok response.
Bodies == {"json throws", "not an array of two", "no children", "children",
           "children that parseComments throws on"}

\* GET from the return of fetchWithRetry on: the non-ok branch, the checks of
\* the body and parseComments, and the catch block that answers 500 with the
\* message of whatever was thrown.
GetRespond(body) ==
    /\ pc \in {"returned", "thrown"}
    /\ pc' = "idle"
    /\ response' =
         IF Get(result).kind = "error"
         THEN [status |-> 500, error |-> Get(result).message, fetched |-> TRUE]
         ELSE IF ~ok(Get(result))
         THEN [status |-> 500,
               error |-> IF Get(result).status = 403 THEN ErrDenied403
                         ELSE IF Get(result).status = 429 THEN ErrTooFrequent429
                         ELSE ErrHttpError,
               fetched |-> TRUE]
         ELSE IF body \in {"json throws", "children that parseComments throws on"}
         THEN [status |-> 500, error |-> ErrException, fetched |-> TRUE]
         ELSE IF body = "not an array of two"
         THEN [status |-> 500, error |-> ErrInvalidFormat, fetched |-> TRUE]
         ELSE [status |-> 200, error |-> "", fetched |-> TRUE]
    /\ UNCHANGED <<maxRetries, attempt, shuffledEndpoints, position, lastError,
                   result, fetchCount, roundFetches, seen, lastAnswer>>
    /\ UNCHANGED <<now, requestCache, granted, upstream, check>>
    /\ UNCHANGED <<fnVars, uiVars>>

FetchInit == FnIdle /\ UiInit /\ RouteIdle /\ RetryIdle

FetchNext ==
    \/ \E given \in MaxRetriesGiven : CallFetchWithRetry(given)
    \/ \E order \in Shuffles : Shuffle(order)
    \/ Fetch
    \/ \E res \in Settlements : Settle(res)
    \/ \E body \in Bodies : GetRespond(body)

SpecFetch == FetchInit /\ [][FetchNext]_vars

\* ------------------- specification: fetchWithRetry, the earlier route file

\* fetchWithRetry(url, maxRetries = 3) of the earlier route file: one url,
\* no endpoint list.
SimpleDefaultMaxRetries == 3
SimpleMaxRetriesGiven ==
    {0, 1, 2, SimpleDefaultMaxRetries, SimpleDefaultMaxRetries + 1}

\* throw new Error('Max retries exceeded')
ErrMaxRetries == "Max retries exceeded"

\* Mutant of retryStatus: every status that is not ok is retried.
retryStatusAnyNonOk(res) == ~ok(res)

\* response.status === 403 || response.status === 429
retryStatus(res) == res.status = 403 \/ res.status = 429

\* The call: the loop is entered with attempt = 1 when 1 <= maxRetries, else
\* the throw after the loop is reached at once.
CallSimpleFetchWithRetry(given) ==
    /\ pc = "idle"
    /\ maxRetries' = given
    /\ fetchCount' = 0
    /\ seen' = "none"
    /\ lastAnswer' = "none"
    /\ IF 1 <= given
       THEN /\ pc' = "fetch"
            /\ attempt' = 1
            /\ result' = None
       ELSE /\ pc' = "thrown"
            /\ attempt' = 1
            /\ result' = Some([kind |-> "error", status |-> 0,
                               message |-> ErrMaxRetries])
    /\ response' = NoResponse
    /\ UNCHANGED <<shuffledEndpoints, position, lastError, roundFetches>>
    /\ UNCHANGED <<now, requestCache, granted, upstream, check>>
    /\ UNCHANGED <<fnVars, uiVars>>

\* await randomDelay(1000, 3000); fetch(url, ...) is issued.
SimpleFetch ==
    /\ pc = "fetch"
    /\ fetchCount' = fetchCount + 1
    /\ pc' = "await"
    /\ UNCHANGED <<maxRetries, attempt, shuffledEndpoints, position, lastError,
                   result, roundFetches, seen, lastAnswer>>
    /\ UNCHANGED <<fnVars, uiVars, routeVars>>

\* The fetch settles: an ok response is returned; 403/429 with attempts left
\* is followed by a delay and the next attempt; any other response is
\* returned; a rejected fetch is rethrown on the last attempt and else
\* followed by a delay and the next attempt.
SimpleSettle(res) ==
    /\ pc = "await"
    /\ seen' = IF seen \in {"none", kindOf(res)} THEN kindOf(res) ELSE "mixed"
    /\ lastAnswer' = kindOf(res)
    /\ IF res.kind = "response"
       THEN IF ok(res)
            THEN /\ result' = Some([kind |-> "response", status |-> res.status,
                                    message |-> ""])
                 /\ pc' = "returned"
                 /\ UNCHANGED attempt
            ELSE IF retryStatus(res) /\ attempt < maxRetries
            THEN /\ attempt' = attempt + 1
                 /\ pc' = "fetch"
                 /\ UNCHANGED result
            ELSE /\ result' = Some([kind |-> "response", status |-> res.status,
                                    message |-> ""])
                 /\ pc' = "returned"
                 /\ UNCHANGED attempt
       ELSE IF attempt = maxRetries
            THEN /\ result' = Some([kind |-> "error", status |-> 0,
                                    message |-> ErrNetwork])
                 /\ pc' = "thrown"
                 /\ UNCHANGED attempt
            ELSE /\ attempt' = attempt + 1
                 /\ pc' = "fetch"
                 /\ UNCHANGED result
    /\ UNCHANGED <<maxRetries, fetchCount, shuffledEndpoints, position,
                   lastError, roundFetches>>
    /\ UNCHANGED <<fnVars, uiVars, routeVars>>

SimpleFetchNext ==
    \/ \E given \in SimpleMaxRetriesGiven : CallSimpleFetchWithRetry(given)
    \/ SimpleFetch
    \/ \E res \in Settlements : SimpleSettle(res)
    \/ \E body \in Bodies : GetRespond(body)

SpecSimpleFetch == FetchInit /\ [][SimpleFetchNext]_vars

\* ------------------------------------------------ specification: the page

\* What the url input may hold: nothing, or the address of a thread.
Urls == {"", "https://www.reddit.com/r/x/comments/1/"}

\* The messages of setError, in English:
\*   '请输入Reddit帖子URL', '获取评论失败', the error text of the API route,
\*   and the message of a rejected fetch.
ErrEnterUrl == "enter the url of a reddit post"
ErrFetchFailed == "fetching the comments failed"
ErrFromRoute == "error reported by the route"
ErrRejected == "fetch rejected"

\* The nodes of the payloads behind the answers of the API route: genuine
\* comments with either stamp, and deleted ones.
FetchedAttrs ==
    { [kind |-> "t1", body |-> BodyHi, score |-> st[1], created_utc |-> st[2]] :
        st \in RawStamps }
    \cup {[kind |-> "t1", body |-> Deleted, score |-> 0, created_utc |-> 0]}

\* The comment arrays the API route answers with: parseComments of a payload
\* of up to MaxRawNodes nodes.
Responses ==
    UNION { { parseComments(RawOf(f, 1, at, FALSE)) :
                f \in Shapes(n), at \in [1..n -> FetchedAttrs] } :
            n \in 0..MaxRawNodes }

\* What the awaited fetch of /api/reddit can come back with.
Outcomes ==
    {[kind |-> "rejected", comments |-> <<>>],
     [kind |-> "not-ok", comments |-> <<>>],
     [kind |-> "error-payload", comments |-> <<>>],
     [kind |-> "no-comments-field", comments |-> <<>>]}
    \cup { [kind |-> "comments", comments |-> c] : c \in Responses }

\* Mutant of memoDeps: sortOrder is missing from the dependency list.
memoDepsNoOrder(c, by, ord) == <<c, by>>

\* The dependency list of the useMemo that holds sortedComments.
memoDeps(c, by, ord) == <<c, by, ord>>

\* The render that follows a handler which left the cells at c, by and ord:
\* useMemo calls sortComments again when a dependency has changed, and the
\* array in the comments cell is then the array sortComments was given.
\* (React compares the dependencies by identity; a new array with the old
\* contents makes it call sortComments again, with the same result.)
Render(c, by, ord) ==
    LET again == memoDeps(c, by, ord) # memoDeps(comments, sortBy, sortOrder)
    IN  /\ sortedComments' = IF again THEN sortComments(c, by, ord) ELSE sortedComments
        /\ comments' = IF again THEN sortCommentsArg(c, by, ord) ELSE c
        /\ sortBy' = by
        /\ sortOrder' = ord

\* onChange of the url input
SetUrl(u) ==
    /\ u # url
    /\ url' = u
    /\ Render(comments, sortBy, sortOrder)
    /\ exported' = NoExport
    /\ UNCHANGED <<loading, error, inflight, fetched>>
    /\ UNCHANGED fnVars
    /\ UNCHANGED routeVars
    /\ UNCHANGED retryVars

\* Mutant of ExtractClick: the button is not disabled while loading.
ExtractClickNotDisabled ==
    /\ IF url = ""
       THEN /\ error' = ErrEnterUrl
            /\ Render(comments, sortBy, sortOrder)
            /\ UNCHANGED <<loading, inflight, fetched>>
       ELSE /\ loading' = TRUE
            /\ error' = ""
            /\ fetched' = <<>>
            /\ Render(<<>>, sortBy, sortOrder)
            /\ inflight' = inflight + 1
    /\ exported' = NoExport
    /\ UNCHANGED url
    /\ UNCHANGED fnVars
    /\ UNCHANGED routeVars
    /\ UNCHANGED retryVars

\* The extract button, which is disabled while loading: extractComments up
\* to its await.
ExtractClick ==
    /\ ~loading
    /\ IF url = ""
       THEN /\ error' = ErrEnterUrl
            /\ Render(comments, sortBy, sortOrder)
            /\ UNCHANGED <<loading, inflight, fetched>>
       ELSE /\ loading' = TRUE
            /\ error' = ""
            /\ fetched' = <<>>
            /\ Render(<<>>, sortBy, sortOrder)
            /\ inflight' = inflight + 1
    /\ exported' = NoExport
    /\ UNCHANGED url
    /\ UNCHANGED fnVars
    /\ UNCHANGED routeVars
    /\ UNCHANGED retryVars

\* extractComments from its await on: the response, or the rejection.
ExtractDone(outcome) ==
    /\ inflight > 0
    /\ inflight' = inflight - 1
    /\ IF outcome.kind \in {"comments", "no-comments-field"}
       THEN /\ fetched' = outcome.comments
            /\ Render(outcome.comments, sortBy, sortOrder)
            /\ UNCHANGED error
       ELSE /\ error' = CASE outcome.kind = "not-ok" -> ErrFetchFailed
                          [] outcome.kind = "error-payload" -> ErrFromRoute
                          [] OTHER -> ErrRejected
            /\ Render(comments, sortBy, sortOrder)
            /\ UNCHANGED fetched
    /\ loading' = FALSE
    /\ exported' = NoExport
    /\ UNCHANGED url
    /\ UNCHANGED fnVars
    /\ UNCHANGED routeVars
    /\ UNCHANGED retryVars

\* onChange of the sort-key select, shown while there are comments
SetSortBy(by) ==
    /\ Len(comments) > 0
    /\ by # sortBy
    /\ Render(comments, by, sortOrder)
    /\ exported' = NoExport
    /\ UNCHANGED <<url, loading, error, inflight, fetched>>
    /\ UNCHANGED fnVars
    /\ UNCHANGED routeVars
    /\ UNCHANGED retryVars

\* onChange of the sort-order select, shown while there are comments
SetSortOrder(ord) ==
    /\ Len(comments) > 0
    /\ ord # sortOrder
    /\ Render(comments, sortBy, ord)
    /\ exported' = NoExport
    /\ UNCHANGED <<url, loading, error, inflight, fetched>>
    /\ UNCHANGED fnVars
    /\ UNCHANGED routeVars
    /\ UNCHANGED retryVars

\* The export button, shown while there are comments: exportToExcel. Writing
\* the file may fail, which the handler catches.
ExportClick(written) ==
    /\ Len(comments) > 0
    /\ exported' =
          IF Len(sortedComments) = 0
          THEN [alert |-> "nothing to export", rows |-> <<>>]
          ELSE [alert |-> IF written THEN "exported" ELSE "export failed",
                rows |-> flattenComments(sortedComments, 0)]
    /\ Render(comments, sortBy, sortOrder)
    /\ UNCHANGED <<url, loading, error, inflight, fetched>>
    /\ UNCHANGED fnVars
    /\ UNCHANGED routeVars
    /\ UNCHANGED retryVars

Init ==
    /\ FnIdle
    /\ UiInit
    /\ RouteIdle
    /\ RetryIdle

Next ==
    \/ \E u \in Urls : SetUrl(u)
    \/ ExtractClick
    \/ \E outcome \in Outcomes : ExtractDone(outcome)
    \/ \E by \in SortBys : SetSortBy(by)
    \/ \E ord \in SortOrders : SetSortOrder(ord)
    \/ \E written \in BOOLEAN : ExportClick(written)

Spec == Init /\ [][Next]_vars

\* The outcomes with which a run of extractComments fails: the fetch is
\* rejected, the answer is not ok, or the payload holds an error.
Failures ==
    {[kind |-> "rejected", comments |-> <<>>],
     [kind |-> "not-ok", comments |-> <<>>],
     [kind |-> "error-payload", comments |-> <<>>]}

\* A pending fetch of /api/reddit does not stay pending for ever: the route
\* aborts each of its boundedly many upstream fetches after a timeout and
\* then answers with an error, and the browser rejects a fetch that gets no
\* answer. (A fetch that is answered with comments before that is no longer
\* pending.)
FairSpec == Spec /\ WF_vars(\E outcome \in Failures : ExtractDone(outcome))

\* --------------------------------------------------- reading a comment tree

\* The replies of a node; a node without the field has none.
Kids(node) == IF IsSome(node.replies) THEN Get(node.replies) ELSE <<>>

\* Every sibling list of the forest f with the id of the node it hangs under
\* (p for the list f itself): a set of pairs <<parent id, list>>.
RECURSIVE Lists(_, _)
Lists(f, p) ==
    {<<p, f>>} \cup UNION { Lists(Kids(f[i]), f[i].id) : i \in DOMAIN f }

\* The nodes of f in pre-order as triples <<depth, parent id, id>>, depths
\* counted from d and p the parent of the list f.
RECURSIVE Placed(_, _, _)
Placed(f, d, p) ==
    IF f = <<>> THEN <<>>
    ELSE <<<<d, p, Head(f).id>>>> \o Placed(Kids(Head(f)), d + 1, Head(f).id)
         \o Placed(Tail(f), d, p)

SeqToBag(s) ==
    [ x \in {s[i] : i \in DOMAIN s} |-> Cardinality({i \in DOMAIN s : s[i] = x}) ]

IdsOf(list) == [ i \in DOMAIN list |-> list[i].id ]

KeyOf(node, by) == IF by = "time" THEN node.created_utc ELSE node.score

Sorted == call.fn = "sortComments"

\* The sibling lists of arg paired with the list under the same parent in
\* ret: <<list in arg, list in ret>>.
ListPairs ==
    { <<q[1][2], q[2][2]>> :
        q \in { x \in Lists(arg, 0) \X Lists(ret, 0) : x[1][1] = x[2][1] } }

\* ------------------------------------------------------ claims: sortComments

\* C2: sortComments returns a tree with the same parent/child membership and
\* the same multiset of node ids at every depth as its input; only the order
\* inside the sibling lists may differ.
C2_StructurePreserved ==
    Sorted =>
        /\ SeqToBag(Placed(ret, 0, 0)) = SeqToBag(Placed(arg, 0, 0))
        /\ \A a \in Lists(arg, 0) :
              \E r \in Lists(ret, 0) :
                  r[1] = a[1] /\ SeqToBag(IdsOf(r[2])) = SeqToBag(IdsOf(a[2]))

\* A nested list of two replies came back in the other order.
C2_Witness ==
    /\ Sorted
    /\ \E a \in Lists(arg, 0), r \in Lists(ret, 0) :
          /\ a[1] # 0 /\ r[1] = a[1]
          /\ Len(a[2]) = 2
          /\ IdsOf(r[2]) = <<a[2][2].id, a[2][1].id>>

\* C3: the sort is stable for both orders and at every depth: two nodes of a
\* sibling list with equal sort keys keep their relative order.
C3_Stable ==
    Sorted =>
        \A a \in Lists(arg, 0) :
            \E r \in Lists(ret, 0) :
                /\ r[1] = a[1]
                /\ \A i, j \in DOMAIN a[2] :
                      (i < j /\ KeyOf(a[2][i], call.sortBy) = KeyOf(a[2][j], call.sortBy))
                      => \E k, l \in DOMAIN r[2] :
                            k < l /\ r[2][k].id = a[2][i].id /\ r[2][l].id = a[2][j].id

\* A descending sort moved two tied nodes in front of a third one.
C3_Witness ==
    /\ Sorted /\ call.sortOrder = "desc"
    /\ \E p \in ListPairs :
          /\ Len(p[1]) = 3
          /\ KeyOf(p[1][2], call.sortBy) = KeyOf(p[1][3], call.sortBy)
          /\ IdsOf(p[2]) = <<p[1][2].id, p[1][3].id, p[1][1].id>>

\* C4: after sortComments every sibling list at every depth is ordered by
\* the selected key: non-decreasing for asc, non-increasing for desc.
C4_OrderedEverywhere ==
    Sorted =>
        \A r \in Lists(ret, 0) :
            \A i \in 1..(Len(r[2]) - 1) :
                IF call.sortOrder = "asc"
                THEN KeyOf(r[2][i], call.sortBy) <= KeyOf(r[2][i + 1], call.sortBy)
                ELSE KeyOf(r[2][i], call.sortBy) >= KeyOf(r[2][i + 1], call.sortBy)

\* An ascending sort by score put a nested list, given in falling score
\* order and rising time order, into rising score order.
C4_Witness ==
    /\ Sorted /\ call.sortBy = "score" /\ call.sortOrder = "asc"
    /\ \E p \in ListPairs :
          /\ Len(p[1]) = 2
          /\ p[1][1].id # 1
          /\ p[1][1].score > p[1][2].score
          /\ p[1][1].created_utc < p[1][2].created_utc
          /\ p[2][1].score < p[2][2].score

\* C5: sortComments is idempotent: sorting the returned tree again with the
\* same key and order returns a structurally equal tree.
C5_Idempotent ==
    (Sorted /\ call.again) => ret = arg

\* The second sort ran on a tree with a tie and a strict step in one list.
C5_Witness ==
    /\ Sorted /\ call.again /\ call.sortOrder = "desc"
    /\ \E r \in Lists(ret, 0) :
          /\ Len(r[2]) = 3
          /\ KeyOf(r[2][1], call.sortBy) = KeyOf(r[2][2], call.sortBy)
          /\ KeyOf(r[2][2], call.sortBy) > KeyOf(r[2][3], call.sortBy)

RECURSIVE Positions(_)
Positions(f) ==
    UNION { {<<i>>} \cup { <<i>> \o q : q \in Positions(Kids(f[i])) } : i \in DOMAIN f }

RECURSIVE NodeAt(_, _)
NodeAt(f, path) ==
    IF Len(path) = 1 THEN f[path[1]]
    ELSE NodeAt(Kids(f[path[1]]), Tail(path))

\* The same for a raw payload.
RawKids(raw) ==
    IF IsSome(raw.data.replies) /\ WellFormed(Get(raw.data.replies))
    THEN children(Get(raw.data.replies))
    ELSE <<>>

RECURSIVE RawPositions(_)
RawPositions(f) ==
    UNION { {<<i>>} \cup { <<i>> \o q : q \in RawPositions(RawKids(f[i])) } :
            i \in DOMAIN f }

RECURSIVE RawNodeAt(_, _)
RawNodeAt(f, path) ==
    IF Len(path) = 1 THEN f[path[1]]
    ELSE RawNodeAt(RawKids(f[path[1]]), Tail(path))

\* p is a proper prefix of q, or p is smaller where they first differ: the
\* order in which a pre-order walk meets the positions.
PreorderBefore(p, q) ==
    \/ Len(p) < Len(q) /\ SubSeq(q, 1, Len(p)) = p
    \/ \E k \in 1..Len(p) :
          /\ k <= Len(q)
          /\ SubSeq(p, 1, k - 1) = SubSeq(q, 1, k - 1)
          /\ p[k] < q[k]

\* ----------------------------------------------------- claim: parseComments

Genuine(raw) == raw.kind = "t1" /\ raw.data.body # Deleted

\* The positions in arg of the raw nodes that are genuine and have only
\* genuine ancestors.
KeptPositions ==
    { p \in RawPositions(arg) :
        \A k \in 1..Len(p) : Genuine(RawNodeAt(arg, SubSeq(p, 1, k))) }

Parsed == call.fn = "parseComments"

\* C1: a raw node appears in the output of parseComments if and only if it
\* and all of its ancestors have kind 't1' and a body other than '[deleted]';
\* the output holds no non-comment node, no deleted node and no descendant of
\* either.
C1_KeptIffGenuinePath ==
    Parsed =>
        /\ { NodeAt(ret, q).id : q \in Positions(ret) }
             = { RawNodeAt(arg, p).data.id : p \in KeptPositions }
        /\ Cardinality(Positions(ret)) = Cardinality(KeptPositions)
        /\ \A q \in Positions(ret) : NodeAt(ret, q).body # Deleted

\* A payload of three nested nodes, the middle one deleted and the innermost
\* one genuine, of which parseComments returned the outermost only.
C1_Witness ==
    /\ Parsed
    /\ <<1, 1, 1>> \in RawPositions(arg)
    /\ Genuine(arg[1])
    /\ RawNodeAt(arg, <<1, 1>>).kind = "t1"
    /\ RawNodeAt(arg, <<1, 1>>).data.body = Deleted
    /\ Genuine(RawNodeAt(arg, <<1, 1, 1>>))
    /\ Positions(ret) = {<<1>>}

\* --------------------------------------------------- claims: flattenComments

Flattened == call.fn = "flattenComments"

\* The positions in arg of the node a row was made from.
RowPositions(row) == { p \in Positions(arg) : NodeAt(arg, p).id = row.commentId }

\* C6: flattenComments returns exactly one row per node of the tree, so the
\* number of rows is the number of nodes over all depths.
C6_OneRowPerNode ==
    Flattened =>
        /\ Len(ret) = Cardinality(Positions(arg))
        /\ \A p \in Positions(arg) :
              Cardinality({ k \in DOMAIN ret : ret[k].commentId = NodeAt(arg, p).id }) = 1

\* Three rows came out of a tree with one top-level node.
C6_Witness ==
    /\ Flattened
    /\ Len(arg) = 1
    /\ Len(ret) = 3

\* C7: with the default depth 0, the level of a row is the number of
\* ancestors of its node: 0 at the top level, the parent's level + 1 below.
C7_LevelIsAncestorCount ==
    Flattened =>
        \A k \in DOMAIN ret :
            /\ RowPositions(ret[k]) # {}
            /\ \A p \in RowPositions(ret[k]) : ret[k].level = Len(p) - 1

\* A row at level 2: a reply to a reply.
C7_Witness ==
    /\ Flattened
    /\ \E k \in DOMAIN ret : ret[k].level = 2 /\ RowPositions(ret[k]) = {<<1, 1, 1>>}

\* C8: the rows come in pre-order: a node before its descendants, the whole
\* subtree of a node before its next sibling, siblings in list order.
C8_PreOrder ==
    Flattened =>
        \A k, l \in DOMAIN ret :
            k < l =>
                \A p \in RowPositions(ret[k]), q \in RowPositions(ret[l]) :
                    PreorderBefore(p, q)

\* The row of a reply stands between the rows of its parent and of the
\* parent's next sibling.
C8_Witness ==
    /\ Flattened
    /\ Len(ret) = 3
    /\ ret[1].level = 0 /\ ret[2].level = 1 /\ ret[3].level = 0
    /\ RowPositions(ret[2]) = {<<1, 1>>}
    /\ RowPositions(ret[3]) = {<<2>>}

\* ------------------------------------------------------------ claim: the page

\* C10: after any sequence of handlers (extraction, sort-key change,
\* sort-order change, export), the displayed tree and the tree handed to the
\* export are sortComments of the array the last extraction stored, with the
\* current key and order, and nothing but an extraction changes the stored
\* array.
C10_DisplayIsSortOfFetched ==
    /\ comments = fetched
    /\ sortedComments = sortComments(fetched, sortBy, sortOrder)
    /\ exported.alert \in {"exported", "export failed"}
          => exported.rows = flattenComments(sortComments(fetched, sortBy, sortOrder), 0)

\* An export of a fetched tree with a reply, after both selects were changed
\* and the top level is shown in another order than it was fetched in.
C10_Witness ==
    /\ exported.alert = "exported"
    /\ sortBy = "score" /\ sortOrder = "asc"
    /\ Len(fetched) = 2
    /\ Len(exported.rows) = 3
    /\ IdsOf(sortedComments) # IdsOf(fetched)

\* ---------------------------------------------------------------- C13
\* The payload with every malformed reply container taken away, as if the
\* comment had no replies field.
RECURSIVE WithoutMalformed(_)
WithoutMalformed(payload) ==
    [ i \in DOMAIN payload |->
        LET comment == payload[i]
        IN  IF ~IsSome(comment.data.replies) THEN comment
            ELSE IF ~WellFormed(Get(comment.data.replies))
            THEN [comment EXCEPT !.data.replies = None]
            ELSE [comment EXCEPT !.data.replies =
                      Some([data |-> Some([children |->
                          Some(WithoutMalformed(children(Get(@))))])])] ]

\* C13: parseComments returns for every payload, and a reply container that
\* is present but has no data or no children list counts as absent: the
\* result is the result for the payload without that container.
C13_MalformedIsAbsent ==
    Parsed => /\ ~call.threw
              /\ ret = parseComments(WithoutMalformed(arg))

\* ---------------------------------------------------------------- C11
\* The rows of the top-level comments, in the order of the rows.
TopRows == SelectSeq(ret, LAMBDA row : row.level = 0)

RowKey(row, by) == IF by = "time" THEN row.timestamp ELSE row.score

\* A payload went through parseComments, sortComments (once or more, the last
\* time with call.sortBy and call.sortOrder) and flattenComments.
Piped == call.raw /\ call.fn = "flattenComments"

\* C11: flattenComments(sortComments(parseComments(raw), key, order)) has
\* exactly one row per raw node that parseComments keeps, the rows of the
\* top-level comments are those of the kept top-level nodes in the order of
\* the key, and the payload of a (with deleted reply b) and c gives a with
\* empty replies and c, then c before a by ascending time, then the two rows
\* c and a at level 0.
C11_PipelineRows ==
    /\ Piped =>
         /\ Len(ret) = Cardinality(KeptPositions)
         /\ { ret[k].commentId : k \in DOMAIN ret }
              = { RawNodeAt(arg, p).data.id : p \in KeptPositions }
         /\ { TopRows[k].commentId : k \in DOMAIN TopRows }
              = { arg[i].data.id : i \in { j \in DOMAIN arg : Genuine(arg[j]) } }
         /\ \A i, j \in DOMAIN TopRows :
                i < j =>
                    IF call.sortOrder = "asc"
                    THEN RowKey(TopRows[i], call.sortBy) <= RowKey(TopRows[j], call.sortBy)
                    ELSE RowKey(TopRows[i], call.sortBy) >= RowKey(TopRows[j], call.sortBy)
    /\ call.raw /\ arg = ExampleRaw =>
         /\ call.fn = "parseComments" =>
                /\ IdsOf(ret) = <<1, 3>>
                /\ ret[1].replies = Some(<<>>)
         /\ call.fn = "sortComments" /\ call.sortBy = "time" /\ call.sortOrder = "asc" =>
                IdsOf(ret) = <<3, 1>>
         /\ call.fn = "flattenComments" /\ call.sortBy = "time"
                /\ call.sortOrder = "asc" =>
                [ k \in DOMAIN ret |-> <<ret[k].commentId, ret[k].level>> ]
                    = <<<<3, 0>>, <<1, 0>>>>

\* The example payload, parsed, sorted by ascending time and flattened.
C11_Witness ==
    /\ Piped
    /\ arg = ExampleRaw
    /\ call.sortBy = "time"
    /\ call.sortOrder = "asc"
    /\ Len(ret) = 2

\* ---------------------------------------------------------------- C12
\* A maximum depth (top level = 0) that the payloads of MaxRawNodes nodes can
\* exceed; parseComments takes no such setting.
DepthLimit == MaxRawNodes - 2

\* C12: with a maximum depth configured, parseComments returns without
\* failing, its result holds no node below the maximum depth, and a node at
\* the maximum depth has empty replies.
C12_TruncatedAtLimit ==
    Parsed =>
        /\ ~call.threw
        /\ \A q \in Positions(ret) :
              /\ Len(q) - 1 <= DepthLimit
              /\ Len(q) - 1 = DepthLimit => NodeAt(ret, q).replies = Some(<<>>)

\* ---------------------------------------------------------------- C14
\* ret is a tree that parseComments or sortComments returned.
TreeReturned == call.fn \in {"parseComments", "sortComments"} /\ ~call.threw

\* The node with this id has no replies in the input of the pipeline: a raw
\* node without a reply container or with an empty one, a comment without a
\* replies field or with an empty one.
NoRepliesIn(id) ==
    IF call.raw
    THEN \E p \in RawPositions(arg) :
            RawNodeAt(arg, p).data.id = id /\ RawKids(RawNodeAt(arg, p)) = <<>>
    ELSE \E p \in Positions(arg) :
            NodeAt(arg, p).id = id /\ Kids(NodeAt(arg, p)) = <<>>

\* C14: in every tree that parseComments returns and in every tree that
\* sortComments returns, after any sequence of sorts, every node has a replies
\* array, which is empty when the node had no reply container, no replies
\* field or no replies.
C14_RepliesAlwaysPresent ==
    TreeReturned =>
        \A q \in Positions(ret) :
            /\ IsSome(NodeAt(ret, q).replies)
            /\ NoRepliesIn(NodeAt(ret, q).id) => NodeAt(ret, q).replies = Some(<<>>)

\* A raw node without a reply container, kept by parseComments, in the tree
\* that sortComments returned for the tree that parseComments returned.
C14_Witness ==
    /\ call.fn = "sortComments"
    /\ call.raw
    /\ \E p \in KeptPositions : RawNodeAt(arg, p).data.replies = None

\* ---------------------------------------------------------------- C15
\* Every children list of the payload f with the id of the node it hangs
\* under (p for the list f itself): a set of pairs <<parent id, list>>.
RECURSIVE RawLists(_, _)
RawLists(f, p) ==
    {<<p, f>>} \cup UNION { RawLists(RawKids(f[i]), f[i].data.id) : i \in DOMAIN f }

\* The ids of the genuine nodes of a children list, in the order of the list.
GenuineIds(list) ==
    LET kept == SelectSeq(list, Genuine)
    IN  [ i \in DOMAIN kept |-> kept[i].data.id ]

\* C15: at every level the nodes that parseComments keeps stand in the
\* output in the relative order of their raw nodes in the children list: the
\* ids of an output list are the ids of the genuine nodes of the raw list
\* under the same parent, in the same order.
C15_SiblingOrderKept ==
    Parsed =>
        \A r \in Lists(ret, 0) :
            \E a \in RawLists(arg, 0) :
                a[1] = r[1] /\ IdsOf(r[2]) = GenuineIds(a[2])

\* Three top-level raw nodes of which the second was dropped and the first
\* and the third were returned in that order.
C15_Witness ==
    /\ Parsed
    /\ Len(arg) = 3
    /\ Genuine(arg[1]) /\ ~Genuine(arg[2]) /\ Genuine(arg[3])
    /\ IdsOf(ret) = <<arg[1].data.id, arg[3].data.id>>

\* ---------------------------------------------------------------- C16
\* C16: every node of the output of parseComments has the id, author, body,
\* score and created_utc of the kept raw node with its id, whatever the
\* values: a negative score and a zero or negative created_utc included.
C16_FieldsCopied ==
    Parsed =>
        \A q \in Positions(ret) :
            \E p \in KeptPositions :
                LET raw == RawNodeAt(arg, p).data
                    node == NodeAt(ret, q)
                IN  /\ node.id = raw.id
                    /\ node.author = raw.author
                    /\ node.body = raw.body
                    /\ node.score = raw.score
                    /\ node.created_utc = raw.created_utc

\* An output with a node of negative score and created_utc zero and a node
\* of negative created_utc.
C16_Witness ==
    /\ Parsed
    /\ \E q \in Positions(ret) :
          NodeAt(ret, q).score < 0 /\ NodeAt(ret, q).created_utc = 0
    /\ \E q \in Positions(ret) : NodeAt(ret, q).created_utc < 0

\* ---------------------------------------------------------------- C17
\* C17: the content of every row has the length of the body of its comment,
\* a space wherever the body has a newline and the character of the body
\* everywhere else, so no row holds a newline.
C17_NewlinesToSpaces ==
    Flattened =>
        \A k \in DOMAIN ret :
            \A p \in RowPositions(ret[k]) :
                LET body == NodeAt(arg, p).body
                    content == ret[k].content
                IN  /\ Len(content) = Len(body)
                    /\ \A i \in DOMAIN body :
                          /\ body[i] = "\n" => content[i] = " "
                          /\ body[i] # "\n" => content[i] = body[i]
                    /\ \A i \in DOMAIN content : content[i] # "\n"

\* A row made from a body with two newlines, one of them at its end.
C17_Witness ==
    /\ Flattened
    /\ \E k \in DOMAIN ret :
          /\ \E p \in RowPositions(ret[k]) : NodeAt(arg, p).body = BodyTwoLines
          /\ ret[k].content = <<"a", " ", "b", " ">>

\* ---------------------------------------------------------------- C18
\* C18: parseComments of the empty array returns the empty array without
\* throwing, and sortComments of the empty array returns the empty array for
\* every key and order. With the empty array as input of the pipeline, every
\* call of either function is a call on the empty array.
C18_EmptyInEmptyOut ==
    arg = <<>> /\ call.fn \in {"parseComments", "sortComments"} =>
        ret = <<>> /\ ~call.threw

\* The empty payload parsed and the result sorted by ascending score.
C18_Witness ==
    /\ arg = <<>>
    /\ call.raw
    /\ call.fn = "sortComments"
    /\ call.sortBy = "score"
    /\ call.sortOrder = "asc"
    /\ ret = <<>>

\* ---------------------------------------------------------------- C19
\* C19: for every client address and every window, checkRateLimit returns
\* true for at most MAX_REQUESTS_PER_WINDOW calls, and a GET whose
\* checkRateLimit call returned false answers 429 and has not called
\* fetchWithRetry.
C19_AtMostTenPerWindow ==
    /\ \A g \in DOMAIN granted : granted[g] <= MAX_REQUESTS_PER_WINDOW
    /\ check.called /\ ~check.returned =>
          response.status = 429 /\ ~response.fetched

\* ---------------------------------------------------------------- C20
\* The start of the window an entry of requestCache was written in: the
\* number after the last underscore of its key, times the window length.
windowStart(cacheKey) ==
    LET parts == split(cacheKey, "_")
    IN  Get(parseInt(parts[Len(parts)])) * RATE_LIMIT_WINDOW

\* C20: right after a checkRateLimit call that returned true, requestCache
\* holds no entry whose window started more than 2 * RATE_LIMIT_WINDOW before
\* now, and it holds the entry of the caller's address and the current
\* window.
C20_PurgedAndKept ==
    check.called /\ check.returned =>
        /\ \A k \in DOMAIN requestCache :
              now - windowStart(k) <= RATE_LIMIT_WINDOW * 2
        /\ key(check.ip, now) \in DOMAIN requestCache

\* ---------------------------------------------------------------- C21
\* A call of fetchWithRetry is under way; it has returned or thrown.
InCall == pc \in {"shuffle", "fetch", "await"}
Ended == pc \in {"returned", "thrown"}

\* What holds of a call of fetchWithRetry in every state.
C21_Safe ==
    \* at most maxRetries * |REDDIT_ENDPOINTS| fetches
    /\ fetchCount <= maxRetries * Len(REDDIT_ENDPOINTS)
    \* no endpoint twice in a round
    /\ \A i, j \in DOMAIN roundFetches :
          roundFetches[i] = roundFetches[j] => i = j
    \* an ok answer ends the call: no fetch is issued or awaited after it
    /\ lastAnswer = "ok" => ~InCall
    \* what is returned is the ok response that came last
    /\ pc = "returned" =>
          /\ lastAnswer = "ok"
          /\ Get(result).kind = "response"
          /\ ok(Get(result))
    /\ IsSome(result) /\ Get(result).kind = "response" => ok(Get(result))
    \* it throws when every round has failed on every endpoint, and not before
    /\ pc = "thrown" =>
          /\ Get(result).kind = "error"
          /\ fetchCount = maxRetries * Len(REDDIT_ENDPOINTS)
          /\ seen # "ok" /\ lastAnswer # "ok"
    /\ pc \in {"shuffle", "fetch"} =>
          fetchCount < maxRetries * Len(REDDIT_ENDPOINTS)

\* The steps a call under way can still take at most: two for each fetch
\* left (issue, settle) and one shuffle for each round left.
RoundSteps == 2 * Len(REDDIT_ENDPOINTS) + 1
Rank ==
    (maxRetries - attempt) * RoundSteps
    + (IF pc = "shuffle" THEN RoundSteps
       ELSE IF pc = "fetch" THEN 2 * (Len(REDDIT_ENDPOINTS) - position + 1)
       ELSE 2 * (Len(REDDIT_ENDPOINTS) - position) + 1)

\* The call under way can take a step.
CanStep ==
    \/ pc = "shuffle" /\ ENABLED (\E order \in Shuffles : Shuffle(order))
    \/ pc = "fetch" /\ ENABLED Fetch
    \/ pc = "await" /\ ENABLED (\E res \in Settlements : Settle(res))

\* C21: a call of fetchWithRetry ends: while it is under way a step is always
\* possible and every step either ends it or brings it nearer to its end; it
\* issues at most maxRetries * |REDDIT_ENDPOINTS| fetches (25 with the
\* default) with no endpoint fetched twice in a round; it returns at the first
\* ok response without a further fetch, returns no response that is not ok,
\* and throws once every round has failed on every endpoint.
C21_RetryTerminates ==
    [][/\ C21_Safe
       /\ C21_Safe'
       /\ InCall => /\ Rank >= 0
                    /\ Ended' \/ (InCall' /\ Rank' < Rank)
       /\ InCall' => CanStep']_vars

\* A call with the default maxRetries that has thrown after 25 fetches.
C21_Witness ==
    /\ pc = "thrown"
    /\ maxRetries = DefaultMaxRetries
    /\ fetchCount = 25

\* ---------------------------------------------------------------- C22
\* C22: when every fetch of the call was answered with 403 (or every fetch
\* with 429), GET answers with status 500 and the access-denied message of its
\* non-ok branch (or the too-many-requests message).
C22_DeniedMessage ==
    /\ pc = "idle"
    /\ response.fetched
    /\ seen \in {"403", "429"}
    => /\ response.status = 500
       /\ response.error = IF seen = "403" THEN ErrDenied403
                           ELSE ErrTooFrequent429

\* ---------------------------------------------------------------- C23
\* C23: the earlier fetchWithRetry issues at most maxRetries fetches (3 with
\* the default) and goes to a further attempt only after a 403/429 response
\* or a rejected fetch while attempts remain; an ok response or a response
\* with another status is returned at once, a 403/429 on the last attempt is
\* returned, and the error of a rejected fetch on the last attempt is thrown.
C23_SimpleRetry ==
    /\ fetchCount <= maxRetries
    /\ pc = "fetch" /\ attempt > 1 =>
          /\ lastAnswer \in {"403", "429", "rejected"}
          /\ attempt <= maxRetries
          /\ fetchCount = attempt - 1
    /\ lastAnswer \in {"ok", "other"} =>
          /\ pc \in {"returned", "idle"}
          /\ Get(result).kind = "response"
          /\ kindOf(Get(result)) = lastAnswer
    /\ pc # "await" /\ lastAnswer \in {"403", "429"} /\ fetchCount = maxRetries =>
          /\ pc \in {"returned", "idle"}
          /\ Get(result).kind = "response"
          /\ kindOf(Get(result)) = lastAnswer
    /\ pc # "await" /\ lastAnswer = "rejected" /\ fetchCount = maxRetries =>
          /\ pc \in {"thrown", "idle"}
          /\ Get(result) = [kind |-> "error", status |-> 0,
                            message |-> ErrNetwork]
    /\ pc = "returned" /\ lastAnswer \in {"403", "429"} =>
          fetchCount = maxRetries
    /\ pc = "thrown" /\ maxRetries >= 1 =>
          lastAnswer = "rejected" /\ fetchCount = maxRetries

\* With the default maxRetries the third fetch is answered 403 after two that
\* were retried, and that response is returned.
C23_Witness ==
    /\ pc = "returned"
    /\ maxRetries = SimpleDefaultMaxRetries
    /\ fetchCount = 3
    /\ lastAnswer = "403"
    /\ Get(result).kind = "response"
    /\ Get(result).status = 403

\* ---------------------------------------------------------------- C24
\* C24: a run of extractComments started with a non-empty url sets loading,
\* clears comments and error, and in the end resets loading, whatever the
\* outcome of the request; a failed run leaves comments empty and error
\* non-empty; the button being disabled while loading, at most one run is
\* in flight.
C24_OneRunThatEnds ==
    /\ [](/\ inflight <= 1
          /\ loading <=> inflight = 1
          /\ loading => comments = <<>> /\ error = "")
    /\ [][/\ ExtractClick /\ url # "" =>
                loading' /\ comments' = <<>> /\ error' = "" /\ inflight' = 1
          /\ inflight' < inflight => ~loading' /\ inflight' = 0
          /\ \A outcome \in Failures : ExtractDone(outcome) =>
                comments' = <<>> /\ error' # ""]_vars
    /\ loading ~> ~loading

\* A run has failed with the error text of the route: loading is reset, the
\* comments are empty and the error is shown.
C24_Witness ==
    /\ ~loading
    /\ inflight = 0
    /\ url # ""
    /\ error = ErrFromRoute
    /\ comments = <<>>

====
